---- MODULE Spec2Model ----
(***************************************************************************)
(* Model of the Regions Cheapest plugin (az_scout_plugin_regions_cheapest): *)
(* compute_region_stats with its result cache, the source selector          *)
(* (_try_db_provider), the two pricing adapters, the live fan-out           *)
(* (_collect_all_skus) with its thread pool, the aggregator (_build_rows)   *)
(* and the ranking (get_cheapest_regions).                                  *)
(*                                                                          *)
(* Conventions                                                              *)
(*  - a Python dict is a TLA+ function with a finite domain; {} is <<>>.    *)
(*  - an optional value is a sequence: None is <<>>, a value x is <<x>>.    *)
(*  - prices are integers counting 10^-6 currency units, the resolution of  *)
(*    round(avg_price, 6); sums and quotients are exact (no float error).   *)
(*  - a ratio is a pair <<num, den>> in lowest terms.                       *)
(*  - coverage_pct of a result counts tenths (round(x, 1)).                 *)
(*  - region and SKU names are strings; "" is the empty (falsy) name.       *)
(*  - the static location table (country code, lat, lon) is left out: no    *)
(*    decision reads it.                                                    *)
(***************************************************************************)
EXTENDS Integers, Sequences, FiniteSets, TLC

\* ---------------------------------------------------------------- bounds

\* Largest price (in 10^-6 units) a collaborator answers with.
MaxPrice == 2
\* Number of regions the discovery collaborator knows.
MaxRegions == 2
\* Number of times the clock advances in one behaviour.
MaxTicks == 2
\* Number of summary calls in one behaviour of the cache specification.
MaxCalls == 3

\* ------------------------------------------------------ program constants

_CACHE_TTL == 600
_MAX_CONCURRENCY == 8
\* _DB_COVERAGE_THRESHOLD = 0.7, as the ratio ThresholdNum / ThresholdDen
ThresholdNum == 7
ThresholdDen == 10

\* ---------------------------------------------------------------- values

None == <<>>
Some(x) == <<x>>
IsNone(o) == o = <<>>
Val(o) == o[1]

EmptyDict == <<>>

\* d.get(k, default)
Get(d, k, default) == IF k \in DOMAIN d THEN d[k] ELSE default

\* d[k] = v on a dict (insert or overwrite)
Put(d, k, v) == [x \in (DOMAIN d) \cup {k} |-> IF x = k THEN v ELSE d[x]]

\* d.update(e)
Update(d, e) == [x \in (DOMAIN d) \cup (DOMAIN e) |-> IF x \in DOMAIN e THEN e[x] ELSE d[x]]

RECURSIVE GCD(_, _)
GCD(a, b) == IF b = 0 THEN a ELSE GCD(b, a % b)

\* the ratio n / d (d > 0, n >= 0) in lowest terms
Ratio(n, d) == LET g == GCD(n, d) IN <<n \div g, d \div g>>

\* round(n / d) to the nearest integer, ties to the even neighbour (n >= 0, d > 0)
RoundHalfEven(n, d) ==
    LET q == n \div d
        r == n % d
    IN  IF 2 * r < d THEN q
        ELSE IF 2 * r > d THEN q + 1
        ELSE IF q % 2 = 0 THEN q ELSE q + 1

\* str.lower() on the SKU names of the model
Lower(s) == CASE s = "A" -> "a"
              [] s = "B" -> "b"
              [] OTHER -> s

RECURSIVE SumSet(_, _)
\* sum of f[x] over x in S
SumSet(f, S) == IF S = {} THEN 0
                ELSE LET x == CHOOSE y \in S : TRUE
                     IN  f[x] + SumSet(f, S \ {x})

Range(seq) == {seq[i] : i \in 1..Len(seq)}

\* ------------------------------------------------- pricing collaborator
\* get_retail_prices(region, currency) answers a catalog {sku: entry}; of an
\* entry only "paygo" (a price or None) is read.

Entry(paygo) == [paygo |-> paygo]

\* _fetch_region_prices: {sku: entry["paygo"] if entry.get("paygo") is not None else None}
_fetch_region_prices(all_prices) ==
    [sku \in DOMAIN all_prices |->
        IF ~IsNone(all_prices[sku].paygo) THEN all_prices[sku].paygo ELSE None]

\* --------------------------------------------------------- _build_rows

GeoMap == [r \in {"r1"} |-> "Europe"]
DisplayName(r) == CASE r = "r1" -> "Region One"
                    [] r = "r2" -> "Region Two"
                    [] OTHER -> "Region"

\* valid_prices = [p for p in prices.values() if p is not None], as the SKUs holding them
ValidSkus(prices) == {s \in DOMAIN prices : ~IsNone(prices[s])}

\* sum(valid_prices)
SumValid(prices) == SumSet([s \in ValidSkus(prices) |-> Val(prices[s])], ValidSkus(prices))

\* AvgPrice dividing by the number of SKU entries, priced or not
AvgPriceOverSkuCount(prices) ==
    LET priced_count == Cardinality(ValidSkus(prices))
    IN  IF priced_count # 0 THEN Some(RoundHalfEven(SumValid(prices), Cardinality(DOMAIN prices)))
        ELSE None

\* round(sum(valid_prices) / priced_count, 6) if priced_count else None
AvgPrice(prices) ==
    LET priced_count == Cardinality(ValidSkus(prices))
    IN  IF priced_count # 0 THEN Some(RoundHalfEven(SumValid(prices), priced_count))
        ELSE None

\* AvailabilityPct as a fraction of one: the factor 100 forgotten
AvailabilityFraction(priced_count, sku_count) ==
    IF sku_count # 0 THEN Ratio(priced_count, sku_count) ELSE <<0, 1>>

\* (priced_count / sku_count * 100) if sku_count else 0.0
AvailabilityPct(priced_count, sku_count) ==
    IF sku_count # 0 THEN Ratio(priced_count * 100, sku_count) ELSE <<0, 1>>

\* one RegionPriceRow
BuildRow(region_name, region_prices, timestamp) ==
    LET prices == Get(region_prices, region_name, EmptyDict)
        priced_count == Cardinality(ValidSkus(prices))
        sku_count == Cardinality(DOMAIN prices)
    IN  [ geography        |-> Get(GeoMap, region_name, "Unknown"),
          region_name      |-> DisplayName(region_name),
          region_id        |-> region_name,
          avg_price        |-> AvgPrice(prices),
          availability_pct |-> AvailabilityPct(priced_count, sku_count),
          sku_count        |-> sku_count,
          priced_count     |-> priced_count,
          timestamp_utc    |-> timestamp ]

\* SortKey without the None flag: the key r.avg_price or 0
SortKeyNoneAsZero(row) == <<0, IF IsNone(row.avg_price) THEN 0 ELSE Val(row.avg_price)>>

\* the sort key (r.avg_price is None, r.avg_price or 0)
SortKey(row) == <<IF IsNone(row.avg_price) THEN 1 ELSE 0,
                  IF IsNone(row.avg_price) THEN 0 ELSE Val(row.avg_price)>>

KeyLess(a, b) == a[1] < b[1] \/ (a[1] = b[1] /\ a[2] < b[2])

\* x put into the sorted sequence s behind every element whose key is not greater
InsertRow(s, x) ==
    LET i == Cardinality({j \in 1..Len(s) : ~KeyLess(SortKey(x), SortKey(s[j]))})
    IN  SubSeq(s, 1, i) \o <<x>> \o SubSeq(s, i + 1, Len(s))

RECURSIVE SortRows(_)
\* list.sort(key=...): a stable sort
SortRows(rows) ==
    IF rows = <<>> THEN <<>>
    ELSE InsertRow(SortRows(SubSeq(rows, 1, Len(rows) - 1)), rows[Len(rows)])

\* _build_rows iterating over the regions of the price map instead of region_names
BuildRowsOfPriced(region_names, region_prices, timestamp) ==
    LET known == SelectSeq(region_names, LAMBDA r : r \in DOMAIN region_prices)
    IN  SortRows([i \in 1..Len(known) |-> BuildRow(known[i], region_prices, timestamp)])

_build_rows(region_names, region_prices, timestamp) ==
    SortRows([i \in 1..Len(region_names) |-> BuildRow(region_names[i], region_prices, timestamp)])

\* RegionPriceRow.to_dict: availabilityPct = round(availability_pct, 2), in hundredths
RowToDict(row) ==
    [ geography       |-> row.geography,
      regionName      |-> row.region_name,
      regionId        |-> row.region_id,
      avgPrice        |-> row.avg_price,
      availabilityPct |-> RoundHalfEven(row.availability_pct[1] * 100, row.availability_pct[2]),
      skuCount        |-> row.sku_count,
      pricedCount     |-> row.priced_count,
      timestampUtc    |-> row.timestamp_utc ]

\* ------------------------------------------------------ pricing adapters

\* is_available without the record count
StatusConnected(data) == data.db_connected

\* DbPricingProvider.is_available on a status answer that did not raise
StatusAvailable(data) == data.db_connected /\ data.retail_prices_count > 0

\* DbPricingProvider.get_prices_bulk on the rows of an answer that did not raise:
\* a row counts when region and sku are non-empty and price_hourly is not None
UsableRows(rows) ==
    {row \in rows : row.region # "" /\ row.sku # "" /\ ~IsNone(row.price_hourly)}

\* DbParse in which a row without price counts as a price of 0 (float(price or 0))
DbParseNullAsZero(rows) ==
    LET kept == {row \in rows : row.region # "" /\ row.sku # ""}
    IN  [k \in {<<row.region, row.sku>> : row \in kept} |->
            LET row == CHOOSE r \in kept : <<r.region, r.sku>> = k
            IN  IF IsNone(row.price_hourly) THEN 0 ELSE Val(row.price_hourly)]

\* result[(region, sku)] = float(price) for each usable row
DbParse(rows) ==
    [k \in {<<row.region, row.sku>> : row \in UsableRows(rows)} |->
        Val((CHOOSE row \in UsableRows(rows) : <<row.region, row.sku>> = k).price_hourly)]

\* CoreApiPricingProvider._fetch_region: the priced entries of one region's catalog
\* whose lower-cased name is a requested one (every entry when no SKU is requested)
CoreFetchRegion(region, prices, skus) ==
    LET sku_set == {Lower(s) : s \in skus}
        kept == {n \in DOMAIN prices :
                    /\ ~(sku_set # {} /\ Lower(n) \notin sku_set)
                    /\ ~IsNone(prices[n].paygo)}
    IN  [k \in {<<region, n>> : n \in kept} |-> Val(prices[k[2]].paygo)]

\* ----------------------------------------------------- _try_db_provider

RegionsOf(flat) == {k[1] : k \in DOMAIN flat}
SkusOf(flat, region) == {k[2] : k \in {x \in DOMAIN flat : x[1] = region}}

\* for (region, sku), price in flat.items(): region_prices.setdefault(region, {})[sku] = price
MergeFlat(region_prices, flat) ==
    [r \in (DOMAIN region_prices) \cup RegionsOf(flat) |->
        Update(Get(region_prices, r, EmptyDict),
               [s \in SkusOf(flat, r) |-> Some(flat[<<r, s>>])])]

\* expected = len(region_names) * len(all_skus) if all_skus else 0
Expected(region_names, all_skus) ==
    IF all_skus # {} THEN Len(region_names) * Cardinality(all_skus) ELSE 0

\* n / expected if expected else 0.0
Coverage(n, expected) == IF expected # 0 THEN Ratio(n, expected) ELSE <<0, 1>>

\* coverage > _DB_COVERAGE_THRESHOLD
ExceedsThreshold(coverage) == coverage[1] * ThresholdDen > ThresholdNum * coverage[2]

\* coverage >= _DB_COVERAGE_THRESHOLD
MeetsThreshold(coverage) == coverage[1] * ThresholdDen >= ThresholdNum * coverage[2]

\* MissingRegions counting only the regions the cache returned nothing for
MissingRegionsUncovered(region_names, all_skus, region_prices) ==
    {rn \in Range(region_names) : all_skus # {} /\ rn \notin DOMAIN region_prices}

\* the regions lacking at least one of all_skus
MissingRegions(region_names, all_skus, region_prices) ==
    {rn \in Range(region_names) :
        \E sku \in all_skus : sku \notin DOMAIN Get(region_prices, rn, EmptyDict)}

\* filled = sum(len(v) for v in region_prices.values())
Filled(region_prices) ==
    SumSet([r \in DOMAIN region_prices |-> Cardinality(DOMAIN region_prices[r])],
           DOMAIN region_prices)

\* ------------------------------------------------ RegionPriceSummaryResult

\* the field defaults of RegionPriceSummaryResult (used by the discovery-failure result)
DefaultDataSource == "live"
DefaultCoveragePct == 0

\* RegionPriceSummaryResult(rows, timestamp_utc, currency, data_source,
\*                          coverage_pct=round(coverage_pct * 100, 1))
SummaryResult(rows, timestamp, currency, data_source, coverage_pct) ==
    [ rows          |-> rows,
      timestamp_utc |-> timestamp,
      currency      |-> currency,
      data_source   |-> data_source,
      coverage_pct  |-> RoundHalfEven(coverage_pct[1] * 100 * 10, coverage_pct[2]) ]

\* RegionPriceSummaryResult(timestamp_utc=..., currency=currency)
EmptySummaryResult(timestamp, currency) ==
    [ rows          |-> <<>>,
      timestamp_utc |-> timestamp,
      currency      |-> currency,
      data_source   |-> DefaultDataSource,
      coverage_pct  |-> DefaultCoveragePct ]

\* a cache key made of the tenant alone
CacheKeyOfTenant(tenant_id, currency) ==
    (IF IsNone(tenant_id) THEN "" ELSE Val(tenant_id)) \o ":"

\* cache_key = f"{tenant_id or ''}:{currency}"
CacheKey(tenant_id, currency) ==
    (IF IsNone(tenant_id) THEN "" ELSE Val(tenant_id)) \o ":" \o currency

\* ------------------------------------------------------------------ state

VARIABLES
    _result_cache,  \* dict: cache key -> [ts, data]
    clock,          \* the clock read by time.monotonic() and datetime.now()
    ticks,          \* how often the clock has advanced
    calls,          \* per caller: how many summary calls it has started
    pc,             \* per caller: the place its compute_region_stats call is at
    loc,            \* per caller: the locals of its call
    ret,            \* per caller: what its last call returned
    log,            \* per caller: the collaborator calls its current call has made
    ranking         \* per caller: what get_cheapest_regions made of its last summary

vars == <<_result_cache, clock, ticks, calls, pc, loc, ret, log, ranking>>

NoLocals ==
    [ tenant_id     |-> None,
      currency      |-> "",
      group_by      |-> "",
      cache_key     |-> "",
      now           |-> 0,
      region_names  |-> <<>>,
      timestamp     |-> 0,
      sample_prices |-> EmptyDict,
      sample_skus   |-> {},
      db_prices     |-> EmptyDict,
      region_prices |-> EmptyDict,
      data_source   |-> "live",
      coverage_pct  |-> <<0, 1>>,
      futures       |-> {},
      queue         |-> <<>>,
      core_prices   |-> EmptyDict ]

\* discovery, status, query: how often the collaborator was called; pricing: how
\* often per region; status_kind, query_kind: what the bulk cache answered
NoLog ==
    [ discovery   |-> 0,
      pricing     |-> EmptyDict,
      status      |-> 0,
      query       |-> 0,
      status_kind |-> "none",
      query_kind  |-> "none" ]

NoReturn == [kind |-> "none", data |-> EmptySummaryResult(0, "")]

NoRanking == [kind |-> "none", top_n |-> 0, rows |-> <<>>, data_source |-> ""]

InitFor(callers) ==
    /\ _result_cache = EmptyDict
    /\ clock = 0
    /\ ticks = 0
    /\ calls = [t \in callers |-> 0]
    /\ pc = [t \in callers |-> "idle"]
    /\ loc = [t \in callers |-> NoLocals]
    /\ ret = [t \in callers |-> NoReturn]
    /\ log = [t \in callers |-> NoLog]
    /\ ranking = [t \in callers |-> NoRanking]

\* one more call of the pricing collaborator for region
LogPricing(lg, region) ==
    [lg EXCEPT !.pricing = Put(lg.pricing, region, Get(lg.pricing, region, 0) + 1)]

\* ------------------------------------------- compute_region_stats, by step

\* Fresh with the TTL taken for minutes
FreshForMinutes(entry, now) == now - entry.ts < _CACHE_TTL \div 60

\* a cached entry is served while now - ts < _CACHE_TTL
Fresh(entry, now) == now - entry.ts < _CACHE_TTL

\* lines 235-241: the call starts, reads the clock and looks the key up
Call(t, tenant_id, currency, group_by, maxCalls) ==
    /\ pc[t] = "idle"
    /\ calls[t] < maxCalls
    /\ calls' = [calls EXCEPT ![t] = @ + 1]
    /\ LET cache_key == CacheKey(tenant_id, currency)
           now == clock
           hit == cache_key \in DOMAIN _result_cache /\ Fresh(_result_cache[cache_key], now)
       IN  /\ loc' = [loc EXCEPT ![t] = [NoLocals EXCEPT !.tenant_id = tenant_id,
                                                         !.currency = currency,
                                                         !.group_by = group_by,
                                                         !.cache_key = cache_key,
                                                         !.now = now]]
           /\ log' = [log EXCEPT ![t] = NoLog]
           /\ ranking' = [ranking EXCEPT ![t] = NoRanking]
           /\ IF hit
              THEN /\ ret' = [ret EXCEPT ![t] = [kind |-> "hit", data |-> _result_cache[cache_key].data]]
                   /\ pc' = pc
              ELSE /\ ret' = [ret EXCEPT ![t] = NoReturn]
                   /\ pc' = [pc EXCEPT ![t] = "discover"]
    /\ UNCHANGED <<_result_cache, clock, ticks>>

\* Discover storing the empty result of a failed discovery in the cache
DiscoverCachingFailure(t, outcome) ==
    /\ log' = [log EXCEPT ![t].discovery = @ + 1]
    /\ IF outcome.ok
       THEN /\ loc' = [loc EXCEPT ![t].region_names = outcome.regions,
                                  ![t].timestamp = clock]
            /\ pc' = [pc EXCEPT ![t] = "sample"]
            /\ ret' = ret
            /\ _result_cache' = _result_cache
       ELSE /\ ret' = [ret EXCEPT ![t] = [kind |-> "empty",
                                          data |-> EmptySummaryResult(clock, loc[t].currency)]]
            /\ pc' = [pc EXCEPT ![t] = "idle"]
            /\ loc' = loc
            /\ _result_cache' = Put(_result_cache, loc[t].cache_key,
                                    [ts |-> clock, data |-> EmptySummaryResult(clock, loc[t].currency)])
    /\ UNCHANGED <<clock, ticks, calls, ranking>>

\* lines 244-259 with the answer of list_regions
DiscoverStep(t, outcome) ==
    /\ log' = [log EXCEPT ![t].discovery = @ + 1]
    /\ IF outcome.ok
       THEN /\ loc' = [loc EXCEPT ![t].region_names = outcome.regions,
                                  ![t].timestamp = clock]
            /\ pc' = [pc EXCEPT ![t] = "sample"]
            /\ ret' = ret
       ELSE /\ ret' = [ret EXCEPT ![t] = [kind |-> "empty",
                                          data |-> EmptySummaryResult(clock, loc[t].currency)]]
            /\ pc' = [pc EXCEPT ![t] = "idle"]
            /\ loc' = loc
    /\ UNCHANGED <<_result_cache, clock, ticks, calls, ranking>>

\* lines 244-259: list_regions answers or raises
Discover(t, outcomes) ==
    /\ pc[t] = "discover"
    /\ \E outcome \in outcomes : DiscoverStep(t, outcome)

\* the pool size without the cap _MAX_CONCURRENCY
WorkersUncapped(n) == IF n # 0 THEN n ELSE 1

\* workers = min(len(regions), _MAX_CONCURRENCY) if regions else 1
Workers(n) == IF n # 0 THEN (IF n < _MAX_CONCURRENCY THEN n ELSE _MAX_CONCURRENCY) ELSE 1

\* ThreadPoolExecutor.submit for each region in turn: the first `workers` fetches get
\* a worker thread, the others wait in the pool's queue in submission order
Queued(submitted, workers) == SubSeq(submitted, workers + 1, Len(submitted))

RECURSIVE Arrangements(_, _)
\* the sequences of k distinct elements of S: the orders in which list(a set) may
\* hand k of its elements over
Arrangements(S, k) ==
    IF k = 0 THEN {<<>>}
    ELSE UNION {{<<x>> \o q : q \in Arrangements(S \ {x}, k - 1)} : x \in S}

\* the fetches a worker thread is carrying out: submitted, not completed, not queued
InFlight(l) == l.futures \ Range(l.queue)

\* a fetch completes: its worker takes the next queued fetch
AfterCompletion(l, region) ==
    [l EXCEPT !.futures = l.futures \ {region},
              !.queue = IF l.queue # <<>> THEN Tail(l.queue) ELSE <<>>]

\* PostSelect in which the live fan-out keeps the sample catalog and leaves the
\* first region out
PostSelectReusingSample(l) ==
    IF l.data_source = "live"
    THEN IF l.region_names # <<>>
         THEN [l EXCEPT !.region_prices = Put(EmptyDict, l.region_names[1], l.sample_prices),
                        !.futures = Range(Tail(l.region_names)),
                        !.queue = <<>>]
         ELSE [l EXCEPT !.region_prices = EmptyDict]
    ELSE IF l.region_names # <<>> /\ l.region_names[1] \notin DOMAIN l.region_prices
    THEN [l EXCEPT !.region_prices = Put(l.region_prices, l.region_names[1], l.sample_prices)]
    ELSE l

\* lines 284-292, up to the submission of the live fetches: the sample region is
\* merged into a db or hybrid map; a live outcome starts _collect_all_skus
PostSelect(l) ==
    LET merged ==
            IF /\ l.data_source \in {"db", "hybrid"}
               /\ l.region_names # <<>>
               /\ l.region_names[1] \notin DOMAIN l.region_prices
            THEN [l EXCEPT !.region_prices = Put(l.region_prices, l.region_names[1], l.sample_prices)]
            ELSE l
    IN  IF merged.data_source = "live"
        THEN [merged EXCEPT !.region_prices = EmptyDict,
                            !.futures = Range(merged.region_names),
                            !.queue = Queued(merged.region_names, Workers(Len(merged.region_names)))]
        ELSE merged

\* the place after PostSelect: the live fan-out when it has fetches to wait for
PcAfterSelect(l) == IF l.data_source = "live" /\ l.futures # {} THEN "live_fetch" ELSE "finish"

\* SampleStep that goes on to the bulk cache without SKU names
SampleStepAlwaysSelecting(t, called, outcome) ==
    LET l == loc[t]
        sample_prices == IF called /\ outcome.ok THEN _fetch_region_prices(outcome.prices)
                         ELSE EmptyDict
    IN  /\ log' = IF called THEN [log EXCEPT ![t] = LogPricing(@, l.region_names[1])] ELSE log
        /\ loc' = [loc EXCEPT ![t] = [l EXCEPT !.sample_prices = sample_prices,
                                               !.sample_skus = DOMAIN sample_prices,
                                               !.data_source = "live",
                                               !.coverage_pct = <<0, 1>>]]
        /\ pc' = [pc EXCEPT ![t] = "db_status"]

\* lines 264-282 with the collaborator's answer (called is false when there is no region)
SampleStep(t, called, outcome) ==
    LET l == loc[t]
        sample_prices == IF called /\ outcome.ok THEN _fetch_region_prices(outcome.prices)
                         ELSE EmptyDict
        l1 == [l EXCEPT !.sample_prices = sample_prices,
                        !.sample_skus = DOMAIN sample_prices,
                        !.data_source = "live",
                        !.coverage_pct = <<0, 1>>]
        l2 == IF l1.sample_skus # {} THEN l1 ELSE PostSelect(l1)
    IN  /\ log' = IF called THEN [log EXCEPT ![t] = LogPricing(@, l.region_names[1])] ELSE log
        /\ loc' = [loc EXCEPT ![t] = l2]
        /\ pc' = [pc EXCEPT ![t] = IF l1.sample_skus # {} THEN "db_status" ELSE PcAfterSelect(l2)]

\* lines 264-282: the first region's catalog gives the SKU names
Sample(t, outcomes) ==
    /\ pc[t] = "sample"
    /\ IF loc[t].region_names # <<>>
       THEN \E outcome \in outcomes : SampleStep(t, TRUE, outcome)
       ELSE SampleStep(t, FALSE, [ok |-> FALSE, prices |-> EmptyDict])
    /\ UNCHANGED <<_result_cache, clock, ticks, calls, ret, ranking>>

\* _try_db_provider lines 158-161 with the answer of the status endpoint
DbStatusStep(t, outcome) ==
    LET available == outcome.ok /\ StatusAvailable(outcome.data)
        kind == IF ~outcome.ok THEN "status_raise"
                ELSE IF ~outcome.data.db_connected THEN "not_connected"
                ELSE IF ~(outcome.data.retail_prices_count > 0) THEN "no_records"
                ELSE "available"
        unavailable == PostSelect([loc[t] EXCEPT !.region_prices = EmptyDict,
                                                 !.data_source = "live",
                                                 !.coverage_pct = <<0, 1>>])
    IN  /\ log' = [log EXCEPT ![t].status = @ + 1, ![t].status_kind = kind]
        /\ IF available
           THEN /\ pc' = [pc EXCEPT ![t] = "db_query"]
                /\ loc' = loc
           ELSE /\ pc' = [pc EXCEPT ![t] = PcAfterSelect(unavailable)]
                /\ loc' = [loc EXCEPT ![t] = unavailable]

\* _try_db_provider lines 158-161: DbPricingProvider.is_available (providers.py 70-78)
DbStatus(t, outcomes) ==
    /\ pc[t] = "db_status"
    /\ \E outcome \in outcomes : DbStatusStep(t, outcome)
    /\ UNCHANGED <<_result_cache, clock, ticks, calls, ret, ranking>>

\* _try_db_provider lines 163-191 on the parsed answer db_prices of get_prices_bulk
SelectOnDb(l, db_prices) ==
    LET region_prices == MergeFlat(EmptyDict, db_prices)
        expected == Expected(l.region_names, l.sample_skus)
        coverage == Coverage(Cardinality(DOMAIN db_prices), expected)
        missing_regions == MissingRegions(l.region_names, l.sample_skus, region_prices)
        withDb == [l EXCEPT !.db_prices = db_prices]
    IN  IF db_prices = EmptyDict
        THEN [withDb EXCEPT !.region_prices = EmptyDict, !.data_source = "live",
                            !.coverage_pct = <<0, 1>>]
        ELSE IF MeetsThreshold(coverage)
        THEN [withDb EXCEPT !.region_prices = region_prices, !.data_source = "db",
                            !.coverage_pct = coverage]
        ELSE [withDb EXCEPT !.region_prices = region_prices, !.data_source = "hybrid",
                            !.coverage_pct = Coverage(Filled(region_prices), expected),
                            !.futures = missing_regions]

\* HybridJoin without the merge of the live answers
HybridJoinNoMerge(l) ==
    [l EXCEPT !.coverage_pct = Coverage(Filled(l.region_prices), Expected(l.region_names, l.sample_skus))]

\* _try_db_provider lines 201-206: the live answers are merged and the coverage recomputed
HybridJoin(l) ==
    LET region_prices == MergeFlat(l.region_prices, l.core_prices)
        expected == Expected(l.region_names, l.sample_skus)
    IN  [l EXCEPT !.region_prices = region_prices,
                  !.coverage_pct = Coverage(Filled(region_prices), expected)]

\* _try_db_provider lines 163-193 with the answer of the query endpoint
DbQueryStep(t, outcome) ==
    LET db_prices == IF outcome.ok THEN DbParse(outcome.rows) ELSE EmptyDict
        kind == IF ~outcome.ok THEN "query_raise"
                ELSE IF db_prices = EmptyDict THEN "query_empty"
                ELSE "answered"
        sel == SelectOnDb(loc[t], db_prices)
        fill == sel.data_source = "hybrid" /\ sel.futures # {}
        n == Cardinality(sel.futures)
    IN  /\ log' = [log EXCEPT ![t].query = @ + 1, ![t].query_kind = kind]
        /\ IF fill
           THEN \* providers.py lines 148-150: list(missing_regions) is submitted in some order
                /\ \E queue \in Arrangements(sel.futures, n - Workers(n)) :
                      loc' = [loc EXCEPT ![t] = [sel EXCEPT !.queue = queue]]
                /\ pc' = [pc EXCEPT ![t] = "core_fetch"]
           ELSE /\ loc' = [loc EXCEPT ![t] = PostSelect(sel)]
                /\ pc' = [pc EXCEPT ![t] = PcAfterSelect(PostSelect(sel))]

\* _try_db_provider lines 163-193: DbPricingProvider.get_prices_bulk (providers.py 93-111)
DbQuery(t, outcomes) ==
    /\ pc[t] = "db_query"
    /\ \E outcome \in outcomes : DbQueryStep(t, outcome)
    /\ UNCHANGED <<_result_cache, clock, ticks, calls, ret, ranking>>

\* providers.py lines 151-156 with the answer for one region; after the last fetch
\* _try_db_provider merges (service.py lines 201-206)
CoreFetchStep(t, region, outcome) ==
    LET l == loc[t]
        partial == IF outcome.ok THEN CoreFetchRegion(region, outcome.prices, l.sample_skus)
                   ELSE EmptyDict
        l1 == AfterCompletion([l EXCEPT !.core_prices = Update(l.core_prices, partial)], region)
        l2 == IF l1.futures = {} THEN PostSelect(HybridJoin(l1)) ELSE l1
    IN  /\ log' = [log EXCEPT ![t] = LogPricing(@, region)]
        /\ loc' = [loc EXCEPT ![t] = l2]
        /\ pc' = [pc EXCEPT ![t] = IF l1.futures = {} THEN PcAfterSelect(l2) ELSE "core_fetch"]

\* CoreApiPricingProvider.get_prices_bulk lines 148-156: one submitted fetch completes
CoreFetchDone(t, outcomes) ==
    /\ pc[t] = "core_fetch"
    /\ \E region \in InFlight(loc[t]), outcome \in outcomes : CoreFetchStep(t, region, outcome)
    /\ UNCHANGED <<_result_cache, clock, ticks, calls, ret, ranking>>

\* LiveFetchStep in which a failed fetch discards what the other fetches brought
LiveFetchStepAborting(t, region, outcome) ==
    LET l == loc[t]
        region_prices == IF outcome.ok
                         THEN Put(l.region_prices, region, _fetch_region_prices(outcome.prices))
                         ELSE EmptyDict
        l1 == AfterCompletion([l EXCEPT !.region_prices = region_prices], region)
    IN  /\ log' = [log EXCEPT ![t] = LogPricing(@, region)]
        /\ loc' = [loc EXCEPT ![t] = l1]
        /\ pc' = [pc EXCEPT ![t] = IF l1.futures = {} THEN "finish" ELSE "live_fetch"]

\* LiveFetchStep keeping only the prices of the fetch that completed last
LiveFetchStepLastWins(t, region, outcome) ==
    LET l == loc[t]
        region_prices == IF outcome.ok
                         THEN Put(EmptyDict, region, _fetch_region_prices(outcome.prices))
                         ELSE l.region_prices
        l1 == AfterCompletion([l EXCEPT !.region_prices = region_prices], region)
    IN  /\ log' = [log EXCEPT ![t] = LogPricing(@, region)]
        /\ loc' = [loc EXCEPT ![t] = l1]
        /\ pc' = [pc EXCEPT ![t] = IF l1.futures = {} THEN "finish" ELSE "live_fetch"]

\* _collect_all_skus lines 96-102 with the answer for one region
LiveFetchStep(t, region, outcome) ==
    LET l == loc[t]
        region_prices == IF outcome.ok
                         THEN Put(l.region_prices, region, _fetch_region_prices(outcome.prices))
                         ELSE l.region_prices
        l1 == AfterCompletion([l EXCEPT !.region_prices = region_prices], region)
    IN  /\ log' = [log EXCEPT ![t] = LogPricing(@, region)]
        /\ loc' = [loc EXCEPT ![t] = l1]
        /\ pc' = [pc EXCEPT ![t] = IF l1.futures = {} THEN "finish" ELSE "live_fetch"]

\* _collect_all_skus lines 93-102: one submitted fetch completes
LiveFetchDone(t, outcomes) ==
    /\ pc[t] = "live_fetch"
    /\ \E region \in InFlight(loc[t]), outcome \in outcomes : LiveFetchStep(t, region, outcome)
    /\ UNCHANGED <<_result_cache, clock, ticks, calls, ret, ranking>>

\* ------------------------------------- steps against a fixed environment
\* answers[<<region, currency>>] is what get_retail_prices does for that region and
\* currency, whenever it is asked.

\* lines 264-282: the first region's catalog gives the SKU names
SampleIn(t, answers) ==
    /\ pc[t] = "sample"
    /\ IF loc[t].region_names # <<>>
       THEN SampleStep(t, TRUE, answers[<<loc[t].region_names[1], loc[t].currency>>])
       ELSE SampleStep(t, FALSE, [ok |-> FALSE, prices |-> EmptyDict])
    /\ UNCHANGED <<_result_cache, clock, ticks, calls, ret, ranking>>

\* CoreApiPricingProvider.get_prices_bulk lines 148-156: one submitted fetch completes
CoreFetchDoneIn(t, answers) ==
    /\ pc[t] = "core_fetch"
    /\ \E region \in InFlight(loc[t]) : CoreFetchStep(t, region, answers[<<region, loc[t].currency>>])
    /\ UNCHANGED <<_result_cache, clock, ticks, calls, ret, ranking>>

\* _collect_all_skus lines 93-102: one submitted fetch completes
LiveFetchDoneIn(t, answers) ==
    /\ pc[t] = "live_fetch"
    /\ \E region \in InFlight(loc[t]) : LiveFetchStep(t, region, answers[<<region, loc[t].currency>>])
    /\ UNCHANGED <<_result_cache, clock, ticks, calls, ret, ranking>>

\* ResultOf whose rows are labelled by geography when the call groups by geography
ResultOfGrouped(l) ==
    LET coverage_pct == IF l.data_source = "live" THEN <<100, 1>> ELSE l.coverage_pct
        rows == _build_rows(l.region_names, l.region_prices, l.timestamp)
        grouped == [i \in 1..Len(rows) |-> [rows[i] EXCEPT !.region_name = rows[i].geography]]
    IN  SummaryResult(IF l.group_by = "geography" THEN grouped ELSE rows,
                      l.timestamp, l.currency, l.data_source, coverage_pct)

\* lines 291-303: the result of a computation that got through discovery
ResultOf(l) ==
    LET coverage_pct == IF l.data_source = "live" THEN <<100, 1>> ELSE l.coverage_pct
    IN  SummaryResult(_build_rows(l.region_names, l.region_prices, l.timestamp),
                      l.timestamp, l.currency, l.data_source, coverage_pct)

\* Finish storing the result with the time the call read when it started
FinishStampedAtCall(t) ==
    /\ pc[t] = "finish"
    /\ LET result == ResultOf(loc[t])
       IN  /\ _result_cache' = Put(_result_cache, loc[t].cache_key,
                                   [ts |-> loc[t].now, data |-> result])
           /\ ret' = [ret EXCEPT ![t] = [kind |-> "computed", data |-> result]]
    /\ pc' = [pc EXCEPT ![t] = "idle"]
    /\ UNCHANGED <<clock, ticks, calls, loc, log, ranking>>

\* Finish updating an entry it finds under the key in place: the rows are replaced,
\* the other fields of the stored result stay
FinishUpdatingInPlace(t) ==
    /\ pc[t] = "finish"
    /\ LET result == ResultOf(loc[t])
           k == loc[t].cache_key
           stored == IF k \in DOMAIN _result_cache
                     THEN [_result_cache[k].data EXCEPT !.rows = result.rows]
                     ELSE result
       IN  /\ _result_cache' = Put(_result_cache, k, [ts |-> clock, data |-> stored])
           /\ ret' = [ret EXCEPT ![t] = [kind |-> "computed", data |-> result]]
    /\ pc' = [pc EXCEPT ![t] = "idle"]
    /\ UNCHANGED <<clock, ticks, calls, loc, log, ranking>>

\* lines 293-305: the rows are built, the result is stored and returned
Finish(t) ==
    /\ pc[t] = "finish"
    /\ LET result == ResultOf(loc[t])
       IN  /\ _result_cache' = Put(_result_cache, loc[t].cache_key, [ts |-> clock, data |-> result])
           /\ ret' = [ret EXCEPT ![t] = [kind |-> "computed", data |-> result]]
    /\ pc' = [pc EXCEPT ![t] = "idle"]
    /\ UNCHANGED <<clock, ticks, calls, loc, log, ranking>>

\* time passes
Advance(steps, maxTicks) ==
    /\ ticks < maxTicks
    /\ ticks' = ticks + 1
    /\ \E d \in steps : clock' = clock + d
    /\ UNCHANGED <<_result_cache, calls, pc, loc, ret, log, ranking>>

\* ------------------------------------------------- get_cheapest_regions

\* x put into the sequence s of priced rows, sorted by average price, behind every
\* row that is not dearer than x
InsertByAvg(s, x) ==
    LET i == Cardinality({j \in 1..Len(s) : Val(s[j].avg_price) <= Val(x.avg_price)})
    IN  SubSeq(s, 1, i) \o <<x>> \o SubSeq(s, i + 1, Len(s))

RECURSIVE SortByAvg(_)
\* priced.sort(key=lambda r: r.avg_price or 0): a stable sort
SortByAvg(rows) ==
    IF rows = <<>> THEN <<>>
    ELSE InsertByAvg(SortByAvg(SubSeq(rows, 1, Len(rows) - 1)), rows[Len(rows)])

\* the slice seq[:n] of Python: a negative n counts from the end
SliceTo(seq, n) ==
    IF n >= 0 THEN SubSeq(seq, 1, IF n < Len(seq) THEN n ELSE Len(seq))
    ELSE SubSeq(seq, 1, IF Len(seq) + n > 0 THEN Len(seq) + n ELSE 0)

\* the difference taken the other way round
DeltaFromCheapest(avg_price, cheapest_price) == cheapest_price - avg_price

\* (row.avg_price or 0.0) - cheapest_price
DeltaVsCheapest(avg_price, cheapest_price) == avg_price - cheapest_price

\* CheapestRegionRow(rank=i + 1, ...).to_dict(): avgPrice and deltaVsCheapest are
\* rounded to six decimals (the unit of the model), availabilityPct to two (hundredths)
CheapestRowToDict(rank, row, cheapest_price) ==
    [ rank            |-> rank,
      geography       |-> row.geography,
      regionName      |-> row.region_name,
      regionId        |-> row.region_id,
      avgPrice        |-> RoundHalfEven(Val(row.avg_price), 1),
      deltaVsCheapest |-> RoundHalfEven(DeltaVsCheapest(Val(row.avg_price), cheapest_price), 1),
      availabilityPct |-> RoundHalfEven(row.availability_pct[1] * 100, row.availability_pct[2]),
      skuCount        |-> row.sku_count,
      pricedCount     |-> row.priced_count,
      timestampUtc    |-> row.timestamp_utc ]

\* get_cheapest_regions lines 335-357 on the summary its compute_region_stats call returned
get_cheapest_regions(summary, top_n) ==
    LET priced == SortByAvg(SelectSeq(summary.rows, LAMBDA r : ~IsNone(r.avg_price)))
        cheapest_price == Val(priced[1].avg_price)
        top == SliceTo(priced, top_n)
    IN  [ kind        |-> "ranked",
          top_n       |-> top_n,
          rows        |-> IF priced = <<>> THEN <<>>
                          ELSE [i \in 1..Len(top) |-> CheapestRowToDict(i, top[i], cheapest_price)],
          data_source |-> summary.data_source ]

\* get_cheapest_regions: the summary call of caller t has returned and is ranked
Cheapest(t, top_ns) ==
    /\ pc[t] = "idle"
    /\ ret[t].kind # "none"
    /\ ranking[t].kind = "none"
    /\ \E top_n \in top_ns :
          ranking' = [ranking EXCEPT ![t] = get_cheapest_regions(ret[t].data, top_n)]
    /\ UNCHANGED <<_result_cache, clock, ticks, calls, pc, loc, ret, log>>

\* ------------------------------------------------- what collaborators answer

RegionNames == <<"r1", "r2", "r3", "r4", "r5", "r6", "r7", "r8", "r9">>
Regions(n) == {RegionNames[i] : i \in 1..n}

RECURSIVE DistinctSeqs(_)
\* the sequences without repetition over S
DistinctSeqs(S) == {<<>>} \cup UNION {{<<x>> \o q : q \in DistinctSeqs(S \ {x})} : x \in S}

\* list_regions raises, or answers a list of distinct regions
DiscoveryOutcomes(regions) ==
    {[ok |-> FALSE, regions |-> <<>>]} \cup {[ok |-> TRUE, regions |-> q] : q \in DistinctSeqs(regions)}

\* the catalogs over skus with paygo None or one of prices
Catalogs(skus, prices) ==
    UNION {[S -> {Entry(None)} \cup {Entry(Some(p)) : p \in prices}] : S \in SUBSET skus}

\* get_retail_prices raises, or answers a catalog
PricingOutcomes(skus, prices) ==
    {[ok |-> FALSE, prices |-> EmptyDict]} \cup {[ok |-> TRUE, prices |-> c] : c \in Catalogs(skus, prices)}

\* GET /plugins/bdd-sku/status raises, or answers {db_connected, retail_prices_count}
StatusOutcomes ==
    {[ok |-> FALSE, data |-> [db_connected |-> FALSE, retail_prices_count |-> 0]]}
    \cup {[ok |-> TRUE, data |-> [db_connected |-> c, retail_prices_count |-> n]] :
            c \in BOOLEAN, n \in {0 - 1, 0, 5000}}

\* rows the bulk cache answers with a missing region or SKU
MalformedRows ==
    { [region |-> "", sku |-> "a", price_hourly |-> Some(1)],
      [region |-> "r1", sku |-> "", price_hourly |-> Some(1)] }

\* the row sets of a bulk answer: at most one row per (region, sku) of pairs, its
\* price_hourly None or one of prices, and any of the malformed rows
DbRowSets(pairs, prices, malformed) ==
    { {[region |-> k[1], sku |-> k[2], price_hourly |-> f[k]] : k \in DOMAIN f} \cup m :
        f \in UNION {[P -> {None} \cup {Some(p) : p \in prices}] : P \in SUBSET pairs},
        m \in SUBSET malformed }

\* POST /plugins/bdd-sku/retail/query raises, or answers rows
QueryOutcomes(pairs, prices, malformed) ==
    {[ok |-> FALSE, rows |-> {}]} \cup {[ok |-> TRUE, rows |-> rs] : rs \in DbRowSets(pairs, prices, malformed)}

\* ------------------------------------------------------ the specification
\* One caller, one summary call at a time, every answer of every collaborator.

Callers == {1}
Skus == {"a", "b"}
Prices == 1..MaxPrice
PipelineCalls == 1

AllRegions == Regions(MaxRegions)
AllDiscovery == DiscoveryOutcomes(AllRegions)
AllPricing == PricingOutcomes(Skus, Prices)
AllQuery == QueryOutcomes(AllRegions \X Skus, Prices, MalformedRows)

Init == InitFor(Callers)

Next ==
    \E t \in Callers :
        \/ Call(t, None, "USD", "region", PipelineCalls)
        \/ Discover(t, AllDiscovery)
        \/ Sample(t, AllPricing)
        \/ DbStatus(t, StatusOutcomes)
        \/ DbQuery(t, AllQuery)
        \/ CoreFetchDone(t, AllPricing)
        \/ LiveFetchDone(t, AllPricing)
        \/ Finish(t)

Spec == Init /\ [][Next]_vars

\* ---------------------------------------------- the selector specification
\* One summary call over two regions and up to five SKUs, so that the coverage
\* ratio takes the value 7/10; the bulk cache answers any subset of the pairs.

SelectSkus == {"a", "b", "c", "d", "e"}
SelectDiscovery == {[ok |-> TRUE, regions |-> q] : q \in {<<"r1", "r2">>, <<"r2">>}}
\* the sample region sells every SKU, or two of them
SelectSample ==
    { [ok |-> TRUE, prices |-> [s \in SelectSkus |-> Entry(Some(1))]],
      [ok |-> TRUE, prices |-> [s \in {"a", "b"} |-> Entry(Some(1))]] }
\* a re-fetched region raises, or sells the SKUs a and c
SelectPricing ==
    { [ok |-> FALSE, prices |-> EmptyDict],
      [ok |-> TRUE, prices |-> [s \in {"a", "c"} |-> Entry(Some(2))]] }
SelectQuery ==
    {[ok |-> FALSE, rows |-> {}]}
    \cup {[ok |-> TRUE, rows |-> {[region |-> k[1], sku |-> k[2], price_hourly |-> Some(1)] : k \in P}] :
            P \in SUBSET ({"r1", "r2"} \X SelectSkus)}

NextSelect ==
    \E t \in Callers :
        \/ Call(t, None, "USD", "region", PipelineCalls)
        \/ Discover(t, SelectDiscovery)
        \/ Sample(t, SelectSample)
        \/ DbStatus(t, StatusOutcomes)
        \/ DbQuery(t, SelectQuery)
        \/ CoreFetchDone(t, SelectPricing)
        \/ LiveFetchDone(t, SelectPricing)
        \/ Finish(t)

SpecSelect == Init /\ [][NextSelect]_vars

\* ------------------------------------------------- the cache specification
\* Several summary calls with different keys while the clock advances; the bulk
\* cache is unreachable, discovery answers or raises and every region sells one SKU.

Tenants == {None, Some("t1")}
Currencies == {"USD", "EUR"}
GroupBys == {"region", "geography"}
\* the clock advances by one second or by one second less than the TTL
ClockSteps == {1, _CACHE_TTL - 1}
CacheDiscovery == {[ok |-> FALSE, regions |-> <<>>], [ok |-> TRUE, regions |-> <<"r1">>]}
CachePricing == {[ok |-> TRUE, prices |-> [s \in {"a"} |-> Entry(Some(1))]]}
CacheStatus == {[ok |-> FALSE, data |-> [db_connected |-> FALSE, retail_prices_count |-> 0]]}

NextCache ==
    \/ \E t \in Callers :
        \/ \E tenant_id \in Tenants, currency \in Currencies, group_by \in GroupBys :
                Call(t, tenant_id, currency, group_by, MaxCalls)
        \/ Discover(t, CacheDiscovery)
        \/ Sample(t, CachePricing)
        \/ DbStatus(t, CacheStatus)
        \/ LiveFetchDone(t, CachePricing)
        \/ Finish(t)
    \/ Advance(ClockSteps, MaxTicks)

SpecCache == Init /\ [][NextCache]_vars

\* ----------------------------------------------- the ranking specification
\* One get_cheapest_regions call over up to three regions selling one SKU, the bulk
\* cache unreachable; top_n ranges over negative, zero and positive values.

RankRegions == {"r1", "r2", "r3"}
RankDiscovery == DiscoveryOutcomes(RankRegions)
RankPricing == PricingOutcomes({"a"}, Prices)
TopNs == (0 - 2)..4

NextRank ==
    \E t \in Callers :
        \/ Call(t, None, "USD", "region", PipelineCalls)
        \/ Discover(t, RankDiscovery)
        \/ Sample(t, RankPricing)
        \/ DbStatus(t, CacheStatus)
        \/ LiveFetchDone(t, RankPricing)
        \/ Finish(t)
        \/ Cheapest(t, TopNs)

SpecRank == Init /\ [][NextRank]_vars

\* -------------------------------------------------- the pool specification
\* One summary call over nine regions (one more than _MAX_CONCURRENCY) or over three;
\* the bulk cache is unreachable, or answers a single pair so that every region is
\* re-fetched by the hybrid fill.

PoolDiscovery == {[ok |-> TRUE, regions |-> q] : q \in {RegionNames, SubSeq(RegionNames, 1, 3)}}
PoolSample == {[ok |-> TRUE, prices |-> [s \in {"a", "b"} |-> Entry(Some(1))]]}
PoolPricing == PoolSample \cup {[ok |-> FALSE, prices |-> EmptyDict]}
PoolStatus == {[ok |-> FALSE, data |-> [db_connected |-> FALSE, retail_prices_count |-> 0]],
               [ok |-> TRUE, data |-> [db_connected |-> TRUE, retail_prices_count |-> 5000]]}
PoolQuery == {[ok |-> TRUE, rows |-> {[region |-> "r1", sku |-> "a", price_hourly |-> Some(1)]}]}

NextPool ==
    \E t \in Callers :
        \/ Call(t, None, "USD", "region", PipelineCalls)
        \/ Discover(t, PoolDiscovery)
        \/ Sample(t, PoolSample)
        \/ DbStatus(t, PoolStatus)
        \/ DbQuery(t, PoolQuery)
        \/ CoreFetchDone(t, PoolPricing)
        \/ LiveFetchDone(t, PoolPricing)
        \/ Finish(t)

SpecPool == Init /\ [][NextPool]_vars

\* ------------------------------------------------- the world specification
\* One summary call in a fixed environment: the pricing collaborator and the bulk
\* cache's query endpoint answer as functions of what they are asked for (region,
\* currency, requested regions and SKUs); discovery lists any regions in any order
\* and the status endpoint answers anything.

WorldRegions == {"r1", "r2", "r3", "r4"}
WorldDiscovery == DiscoveryOutcomes(WorldRegions)

Priced(prices) == [ok |-> TRUE, prices |-> prices]
Raises == [ok |-> FALSE, prices |-> EmptyDict]

\* get_retail_prices(region, currency)
Catalog(region, currency) ==
    CASE currency = "USD" /\ region = "r1" -> Priced([s \in {"a", "b"} |-> Entry(Some(2))])
      [] currency = "USD" /\ region = "r2" -> Priced([s \in {"a", "b"} |-> Entry(Some(2))])
      [] currency = "USD" /\ region = "r3" -> Raises
      [] currency = "USD" /\ region = "r4" ->
            Priced([s \in {"a", "b"} |-> IF s = "a" THEN Entry(Some(2)) ELSE Entry(None)])
      [] currency = "EUR" /\ region = "r1" ->
            Priced([s \in {"a", "b"} |-> IF s = "a" THEN Entry(Some(1)) ELSE Entry(Some(2))])
      [] currency = "EUR" /\ region = "r2" -> Raises
      [] currency = "EUR" /\ region = "r3" -> Priced([s \in {"a", "b"} |-> Entry(None)])
      [] currency = "EUR" /\ region = "r4" ->
            Priced([s \in {"a", "b"} |-> IF s = "a" THEN Entry(Some(1)) ELSE Entry(Some(0))])
      [] OTHER -> Raises

DbRow(region, sku, price_hourly) == [region |-> region, sku |-> sku, price_hourly |-> price_hourly]

\* the rows the bulk cache holds per currency: in USD three regions in full (one price
\* is 0) and a row without price for the fourth; in EUR one region in full and two in
\* part; in both a row without region
DbTable(currency) ==
    IF currency = "USD"
    THEN { DbRow("r1", "a", Some(1)), DbRow("r1", "b", Some(1)),
           DbRow("r2", "a", Some(1)), DbRow("r2", "b", Some(1)),
           DbRow("r3", "a", Some(1)), DbRow("r3", "b", Some(0)),
           DbRow("r4", "a", None), DbRow("", "a", Some(1)) }
    ELSE { DbRow("r1", "a", Some(2)),
           DbRow("r2", "a", Some(1)),
           DbRow("r3", "a", Some(1)), DbRow("r3", "b", Some(1)),
           DbRow("", "b", Some(1)) }

\* POST /plugins/bdd-sku/retail/query {currency, regions, skus}: the rows of the
\* requested SKUs in the requested regions, and the row without region
DbAnswer(l) ==
    [ok |-> TRUE,
     rows |-> {row \in DbTable(l.currency) :
                  /\ row.sku \in l.sample_skus
                  /\ row.region \in Range(l.region_names) \cup {""}}]

\* the pricing collaborator as the function the steps consult
CatalogOf == [k \in WorldRegions \X Currencies |-> Catalog(k[1], k[2])]

NextWorld ==
    \E t \in Callers :
        \/ \E currency \in Currencies : Call(t, None, currency, "region", PipelineCalls)
        \/ Discover(t, WorldDiscovery)
        \/ SampleIn(t, CatalogOf)
        \/ DbStatus(t, StatusOutcomes)
        \/ DbQuery(t, {DbAnswer(loc[t])})
        \/ CoreFetchDoneIn(t, CatalogOf)
        \/ LiveFetchDoneIn(t, CatalogOf)
        \/ Finish(t)

SpecWorld == Init /\ [][NextWorld]_vars

\* -------------------------------------------------- the pair specification
\* Two callers make summary calls at the same time in the fixed environment of the
\* world specification: their steps interleave in every order, discovery lists two
\* regions in either order or raises, the status endpoint raises or reports a
\* populated cache, and the clock advances once by a second.

Callers2 == {1, 2}
\* Number of summary calls each of the two callers makes.
PairCalls == 2
PairDiscovery == {[ok |-> FALSE, regions |-> <<>>],
                  [ok |-> TRUE, regions |-> <<"r1", "r2">>],
                  [ok |-> TRUE, regions |-> <<"r2", "r1">>]}
PairStatus == {[ok |-> FALSE, data |-> [db_connected |-> FALSE, retail_prices_count |-> 0]],
               [ok |-> TRUE, data |-> [db_connected |-> TRUE, retail_prices_count |-> 5000]]}

InitPair == InitFor(Callers2)

NextPair ==
    \/ \E t \in Callers2 :
        \/ \E currency \in Currencies, group_by \in GroupBys :
                Call(t, None, currency, group_by, PairCalls)
        \/ Discover(t, PairDiscovery)
        \/ SampleIn(t, CatalogOf)
        \/ DbStatus(t, PairStatus)
        \/ DbQuery(t, {DbAnswer(loc[t])})
        \/ CoreFetchDoneIn(t, CatalogOf)
        \/ LiveFetchDoneIn(t, CatalogOf)
        \/ Finish(t)
    \/ Advance({1}, 1)

SpecPair == InitPair /\ [][NextPair]_vars

\* ================================================================= claims

\* caller t has returned from a call that got through discovery
Computed(t) == pc[t] = "idle" /\ ret[t].kind = "computed"
\* caller t has returned
Returned(t) == pc[t] = "idle" /\ ret[t].kind # "none"

\* the rows hold region exactly once
OnceIn(rows, region) == Cardinality({i \in 1..Len(rows) : rows[i].region_id = region}) = 1

\* the row of region
RowOf(rows, region) == rows[CHOOSE i \in 1..Len(rows) : rows[i].region_id = region]

\* C1 as stated: after a summary call that got through discovery every discovered
\* region has exactly one row, and the row list is empty only when discovery raised.
C1_Original ==
    \A t \in DOMAIN pc :
        /\ Computed(t) =>
              /\ Len(ret[t].data.rows) = Len(loc[t].region_names)
              /\ \A r \in Range(loc[t].region_names) : OnceIn(ret[t].data.rows, r)
        /\ (Returned(t) /\ ret[t].kind # "hit" /\ ret[t].data.rows = <<>>) => ret[t].kind = "empty"

\* C1 amended: after a summary call that got through discovery every discovered
\* region has exactly one row, whatever the bulk cache and the pricing collaborator
\* did; the row list is empty only when discovery raised or answered no region.
C1_EveryRegionOnce ==
    \A t \in DOMAIN pc :
        /\ Computed(t) =>
              /\ Len(ret[t].data.rows) = Len(loc[t].region_names)
              /\ \A r \in Range(loc[t].region_names) : OnceIn(ret[t].data.rows, r)
        /\ (Returned(t) /\ ret[t].kind # "hit" /\ ret[t].data.rows = <<>>) =>
              (ret[t].kind = "empty" \/ loc[t].region_names = <<>>)
        /\ (Returned(t) /\ ret[t].kind = "empty") => ret[t].data.rows = <<>>

\* two regions discovered, one of them without any price data, both with a row
C1_Witness ==
    \E t \in DOMAIN pc :
        /\ Computed(t)
        /\ Len(loc[t].region_names) = 2
        /\ \E r \in Range(loc[t].region_names) : r \notin DOMAIN loc[t].region_prices
        /\ Len(ret[t].data.rows) = 2

\* the number of (region, SKU) pairs the bulk cache returned to the call
ReturnedPairs(l) == Cardinality(DOMAIN l.db_prices)
\* region count x SKU count
PairSpace(l) == Len(l.region_names) * Cardinality(l.sample_skus)

\* C2: with a successful discovery and a non-empty sample SKU list, the data source
\* is db exactly when the bulk cache is available and returned pairs / (regions x
\* SKUs) >= 7/10, hybrid exactly when it is available, returned a pair and the ratio
\* is below 7/10, and live in every other case.
C2_DataSource ==
    \A t \in DOMAIN pc :
        (Computed(t) /\ loc[t].sample_skus # {}) =>
            LET available == log[t].status_kind = "available"
                n == ReturnedPairs(loc[t])
                isDb == available /\ 10 * n >= 7 * PairSpace(loc[t])
                isHybrid == available /\ n >= 1 /\ 10 * n < 7 * PairSpace(loc[t])
                ds == ret[t].data.data_source
            IN  /\ ds = "db" <=> isDb
                /\ ds = "hybrid" <=> isHybrid
                /\ ds = "live" <=> (~isDb /\ ~isHybrid)

\* the boundary: seven of ten pairs returned, data source db
C2_Witness ==
    \E t \in DOMAIN pc :
        /\ Computed(t)
        /\ PairSpace(loc[t]) = 10
        /\ ReturnedPairs(loc[t]) = 7
        /\ ret[t].data.data_source = "db"

\* the bulk cache priced some pair of region
CachePriced(l, region) == \E k \in DOMAIN l.db_prices : k[1] = region
\* the live re-fetch of the hybrid fill priced some pair of region
RefetchPriced(l, region) == \E k \in DOMAIN l.core_prices : k[1] = region
\* region is the sample region and its sample catalog holds a price
SamplePriced(l, region) ==
    l.region_names # <<>> /\ region = l.region_names[1] /\ ValidSkus(l.sample_prices) # {}

\* C3 as stated: whenever the data source is hybrid, every row has a non-null
\* average price.
C3_Original ==
    \A t \in DOMAIN pc :
        (Computed(t) /\ ret[t].data.data_source = "hybrid") =>
            \A i \in 1..Len(ret[t].data.rows) : ~IsNone(ret[t].data.rows[i].avg_price)

\* C3 amended: whenever the data source is hybrid, every discovered region for which
\* the bulk cache answered a price or the live re-fetch answered a priced sample SKU
\* has a non-null average price; a region with neither has a null average, unless it
\* is the sample region and its sample catalog holds a price.
C3_HybridPricedWhereAnswered ==
    \A t \in DOMAIN pc :
        (Computed(t) /\ ret[t].data.data_source = "hybrid") =>
            \A r \in Range(loc[t].region_names) :
                ~IsNone(RowOf(ret[t].data.rows, r).avg_price)
                    <=> (CachePriced(loc[t], r) \/ RefetchPriced(loc[t], r) \/ SamplePriced(loc[t], r))

\* a hybrid result in which a region the cache did not price was priced by the re-fetch
C3_Witness ==
    \E t \in DOMAIN pc :
        /\ Computed(t)
        /\ ret[t].data.data_source = "hybrid"
        /\ \E r \in Range(loc[t].region_names) :
              /\ ~CachePriced(loc[t], r)
              /\ RefetchPriced(loc[t], r)
              /\ ~IsNone(RowOf(ret[t].data.rows, r).avg_price)

\* the bulk cache failed: its status raised, was not connected or had no record, or
\* its query raised or answered no usable row
CacheFailed(lg) ==
    \/ lg.status_kind \in {"status_raise", "not_connected", "no_records"}
    \/ lg.query_kind \in {"query_raise", "query_empty"}

\* C4: after every failure of the bulk cache the call returns a result whose data
\* source is live and which has one row per discovered region.
C4_CacheFailureGoesLive ==
    \A t \in DOMAIN pc :
        /\ (Returned(t) /\ CacheFailed(log[t])) =>
              /\ ret[t].kind = "computed"
              /\ ret[t].data.data_source = "live"
              /\ Len(ret[t].data.rows) = Len(loc[t].region_names)
        /\ (pc[t] # "idle" /\ CacheFailed(log[t])) => loc[t].data_source = "live"

\* a call over two regions whose bulk query raised after an available status
C4_Witness ==
    \E t \in DOMAIN pc :
        /\ Computed(t)
        /\ log[t].status_kind = "available"
        /\ log[t].query_kind = "query_raise"
        /\ Len(ret[t].data.rows) = 2

\* rows are in ascending order of average price with the null averages last
RowsSorted(rows) ==
    \A i, j \in 1..Len(rows) :
        i < j =>
            /\ IsNone(rows[i].avg_price) => IsNone(rows[j].avg_price)
            /\ (~IsNone(rows[i].avg_price) /\ ~IsNone(rows[j].avg_price)) =>
                  Val(rows[i].avg_price) <= Val(rows[j].avg_price)

\* C8: the rows of every returned and of every cached result are in ascending order
\* of average price, the rows with a null average behind all others.
C8_RowsSorted ==
    /\ \A t \in DOMAIN pc : Returned(t) => RowsSorted(ret[t].data.rows)
    /\ \A k \in DOMAIN _result_cache : RowsSorted(_result_cache[k].data.rows)

\* the sort moved a cheaper second region in front of the first one
C8_Witness ==
    \E t \in DOMAIN pc :
        /\ Computed(t)
        /\ Len(ret[t].data.rows) = 2
        /\ ret[t].data.rows[1].region_id = loc[t].region_names[2]
        /\ ~IsNone(ret[t].data.rows[1].avg_price)
        /\ IsNone(RowOf(ret[t].data.rows, loc[t].region_names[1]).avg_price)

\* the non-null prices the per-region map holds for region, and their sum
PricedSkus(l, region) ==
    LET prices == Get(l.region_prices, region, EmptyDict)
    IN  {s \in DOMAIN prices : prices[s] # None}
PricedSum(l, region) ==
    SumSet([s \in PricedSkus(l, region) |-> l.region_prices[region][s][1]], PricedSkus(l, region))

\* C9 as stated: the average price of a row is exactly the sum of the region's
\* non-null prices divided by their number, and null when there is none.
C9_Original ==
    \A t \in DOMAIN pc :
        Computed(t) =>
            \A r \in Range(loc[t].region_names) :
                LET row == RowOf(ret[t].data.rows, r)
                    n == Cardinality(PricedSkus(loc[t], r))
                IN  /\ IsNone(row.avg_price) <=> n = 0
                    /\ n # 0 => Val(row.avg_price) * n = PricedSum(loc[t], r)

\* C9 amended: the average price of a row is the arithmetic mean of the region's
\* non-null prices rounded to six decimal places (it differs from the mean by at most
\* half of 10^-6), and it is null exactly when the region has no non-null price.
C9_AvgIsRoundedMean ==
    \A t \in DOMAIN pc :
        Computed(t) =>
            \A r \in Range(loc[t].region_names) :
                LET row == RowOf(ret[t].data.rows, r)
                    n == Cardinality(PricedSkus(loc[t], r))
                    sum == PricedSum(loc[t], r)
                IN  /\ IsNone(row.avg_price) <=> n = 0
                    /\ row.priced_count = n
                    /\ n # 0 => /\ 2 * (Val(row.avg_price) * n - sum) <= n
                                /\ 2 * (sum - Val(row.avg_price) * n) <= n

\* a region with an unpriced SKU and a priced one, and a region whose mean is not a
\* multiple of 10^-6
C9_Witness ==
    \E t \in DOMAIN pc :
        /\ Computed(t)
        /\ \E r \in Range(loc[t].region_names) :
              /\ Cardinality(PricedSkus(loc[t], r)) = 2
              /\ PricedSum(loc[t], r) = 3
        /\ \E r \in Range(loc[t].region_names) :
              /\ Cardinality(PricedSkus(loc[t], r)) = 1
              /\ RowOf(ret[t].data.rows, r).sku_count = 2

\* C10: the availability percentage of a row with priced count n and SKU count m is
\* 100 * n / m when m > 0 and 0 when m = 0, and it lies between 0 and 100.
C10_Availability ==
    \A t \in DOMAIN pc :
        Computed(t) =>
            \A r \in Range(loc[t].region_names) :
                LET row == RowOf(ret[t].data.rows, r)
                    n == Cardinality(PricedSkus(loc[t], r))
                    m == Cardinality(DOMAIN Get(loc[t].region_prices, r, EmptyDict))
                    a == row.availability_pct
                IN  /\ row.priced_count = n /\ row.sku_count = m /\ n <= m
                    /\ a[2] > 0
                    /\ m > 0 => a[1] * m = 100 * n * a[2]
                    /\ m = 0 => a[1] = 0
                    /\ 0 <= a[1] /\ a[1] <= 100 * a[2]

\* rows with availability 50 (one of two SKUs priced), 0 of a region without data,
\* and 100
C10_Witness ==
    \E t \in DOMAIN pc :
        /\ Computed(t)
        /\ \E i \in 1..Len(ret[t].data.rows) :
              /\ ret[t].data.rows[i].availability_pct = <<50, 1>>
              /\ ret[t].data.rows[i].sku_count = 2
        /\ \E i \in 1..Len(ret[t].data.rows) :
              /\ ret[t].data.rows[i].sku_count = 0
              /\ ret[t].data.rows[i].availability_pct = <<0, 1>>

\* the step is the start of a summary call of caller t
CallStep(t) == calls'[t] # calls[t]
\* the step is the return of caller t from a failed discovery
DiscoveryFailedStep(t) == pc[t] = "discover" /\ pc'[t] = "idle"
\* the step stores the result caller t computed
StoreStep(t) == pc[t] = "finish" /\ pc'[t] = "idle"

\* C5: when discovery raises, the call returns a result without rows that carries the
\* requested currency and leaves the result cache as it was; the next call with the
\* same key invokes discovery again.
C5_DiscoveryFailure ==
    [][\A t \in DOMAIN pc :
          /\ DiscoveryFailedStep(t) =>
                /\ ret'[t].kind = "empty"
                /\ ret'[t].data.rows = <<>>
                /\ ret'[t].data.currency = loc[t].currency
                /\ _result_cache' = _result_cache
          /\ (CallStep(t) /\ pc[t] = "idle" /\ ret[t].kind = "empty"
                /\ loc'[t].cache_key = loc[t].cache_key) =>
                /\ pc'[t] = "discover"
                /\ ret'[t].kind = "none"
      ]_vars

\* a call for EUR whose discovery raised while the cache held an entry for its key
C5_Witness ==
    \E t \in DOMAIN pc :
        /\ Returned(t)
        /\ ret[t].kind = "empty"
        /\ ret[t].data.currency = "EUR"
        /\ loc[t].cache_key \in DOMAIN _result_cache

\* C6: a call made less than 600 seconds after a result was stored under its key
\* returns that stored result, the one the storing call returned, and calls neither
\* discovery nor the pricing collaborator nor the bulk cache.
C6_HitWithinTtl ==
    /\ [][\A t \in DOMAIN pc :
            /\ CallStep(t) =>
                  LET k == loc'[t].cache_key
                  IN  (k \in DOMAIN _result_cache /\ clock - _result_cache[k].ts < 600) =>
                          /\ ret'[t] = [kind |-> "hit", data |-> _result_cache[k].data]
                          /\ pc'[t] = "idle"
                          /\ _result_cache' = _result_cache
            /\ StoreStep(t) =>
                  /\ loc[t].cache_key \in DOMAIN _result_cache'
                  /\ _result_cache'[loc[t].cache_key] = [ts |-> clock, data |-> ret'[t].data]
        ]_vars
    /\ [](\A t \in DOMAIN pc :
            (Returned(t) /\ ret[t].kind = "hit") =>
                /\ log[t].discovery = 0
                /\ log[t].pricing = EmptyDict
                /\ log[t].status = 0
                /\ log[t].query = 0)

\* a hit 599 seconds after the store
C6_Witness ==
    \E t \in DOMAIN pc :
        /\ Returned(t)
        /\ ret[t].kind = "hit"
        /\ loc[t].cache_key \in DOMAIN _result_cache
        /\ loc[t].now - _result_cache[loc[t].cache_key].ts = 599
        /\ ret[t].data = _result_cache[loc[t].cache_key].data

\* C7: no step removes a key from the result cache; an entry is created or replaced
\* only by the call that computed a result for that very key; a hit returns the entry
\* of the call's own key; a call whose key has no entry computes its own result even
\* when other keys hold fresh entries, and every result carries the currency of the
\* call that asked for it.
C7_KeysIndependent ==
    /\ [][/\ \A k \in DOMAIN _result_cache : k \in DOMAIN _result_cache'
          /\ \A k \in DOMAIN _result_cache' :
                (k \notin DOMAIN _result_cache \/ _result_cache'[k] # _result_cache[k]) =>
                    \E t \in DOMAIN pc : StoreStep(t) /\ loc[t].cache_key = k
          /\ \A t \in DOMAIN pc :
                CallStep(t) =>
                    /\ ret'[t].kind = "hit" =>
                          /\ loc'[t].cache_key \in DOMAIN _result_cache
                          /\ ret'[t].data = _result_cache[loc'[t].cache_key].data
                    /\ loc'[t].cache_key \notin DOMAIN _result_cache => pc'[t] = "discover"
        ]_vars
    /\ [](\A t \in DOMAIN pc : Returned(t) => ret[t].data.currency = loc[t].currency)

\* a result computed for EUR while the entry of the same tenant for USD is fresh
C7_Witness ==
    \E t \in DOMAIN pc :
        /\ Computed(t)
        /\ loc[t].cache_key = ":EUR"
        /\ ret[t].data.currency = "EUR"
        /\ ":USD" \in DOMAIN _result_cache
        /\ clock - _result_cache[":USD"].ts < 600
        /\ _result_cache[":USD"].data.currency = "USD"

\* C13 as stated: whenever the data source of a computed summary is live, the coverage
\* percentage it reports is 100 (1000 tenths).
C13_Original ==
    \A t \in DOMAIN pc :
        (Computed(t) /\ ret[t].data.data_source = "live") => ret[t].data.coverage_pct = 1000

\* caller t holds the output of get_cheapest_regions
Ranked(t) == ranking[t].kind = "ranked"

\* the rows of the summary with a non-null average price
PricedRows(summary) == SelectSeq(summary.rows, LAMBDA r : ~IsNone(r.avg_price))

\* C11: in the output of get_cheapest_regions the first ranked row has deltaVsCheapest
\* 0, and the deltaVsCheapest of every ranked row is its average price minus the
\* average price of the first row, and is not negative.
C11_DeltaVsCheapest ==
    \A t \in DOMAIN pc :
        Ranked(t) =>
            LET rows == ranking[t].rows
            IN  /\ rows # <<>> => rows[1].deltaVsCheapest = 0
                /\ \A i \in 1..Len(rows) :
                      /\ rows[i].deltaVsCheapest = rows[i].avgPrice - rows[1].avgPrice
                      /\ rows[i].deltaVsCheapest >= 0
                      /\ \E j \in 1..Len(ret[t].data.rows) :
                            /\ ret[t].data.rows[j].region_id = rows[i].regionId
                            /\ ret[t].data.rows[j].avg_price = Some(rows[i].avgPrice)

\* a ranking of three regions of which the last is dearer than the first
C11_Witness ==
    \E t \in DOMAIN pc :
        /\ Ranked(t)
        /\ Len(ranking[t].rows) = 3
        /\ ranking[t].rows[1].deltaVsCheapest = 0
        /\ ranking[t].rows[3].deltaVsCheapest > 0

\* C12 as stated: for every integer top_n get_cheapest_regions returns
\* min(max(top_n, 0), number of priced summary rows) rows, in non-decreasing average
\* price, none of a region without average, ranked 1, 2, ... in list order; the list is
\* empty when no summary row has an average.
C12_Original ==
    \A t \in DOMAIN pc :
        Ranked(t) =>
            LET rows == ranking[t].rows
                n == Len(PricedRows(ret[t].data))
                top_n == ranking[t].top_n
                want == IF top_n < 0 THEN 0 ELSE IF top_n < n THEN top_n ELSE n
            IN  /\ Len(rows) = want
                /\ \A i \in 1..Len(rows) :
                      /\ rows[i].rank = i
                      /\ rows[i].regionId = PricedRows(ret[t].data)[i].region_id
                      /\ i > 1 => rows[i - 1].avgPrice <= rows[i].avgPrice
                /\ n = 0 => rows = <<>>

\* the number of regions of the fan-out caller t is in
FanOutSize(t) ==
    IF pc[t] = "live_fetch" THEN Len(loc[t].region_names)
    ELSE Cardinality(MissingRegions(loc[t].region_names, loc[t].sample_skus,
                                    MergeFlat(EmptyDict, loc[t].db_prices)))

\* C17: at every moment of a live fan-out over n regions (by _collect_all_skus or by
\* CoreApiPricingProvider.get_prices_bulk) at most min(n, 8) calls of the pricing
\* collaborator are in flight.
C17_InFlightBounded ==
    \A t \in DOMAIN pc :
        pc[t] \in {"live_fetch", "core_fetch"} =>
            /\ Cardinality(InFlight(loc[t])) <= 8
            /\ Cardinality(InFlight(loc[t])) <= FanOutSize(t)

\* nine regions to fetch: eight fetches in flight while the ninth waits for a worker
C17_Witness ==
    \E t \in DOMAIN pc :
        /\ pc[t] = "live_fetch"
        /\ FanOutSize(t) = 9
        /\ Cardinality(InFlight(loc[t])) = 8
        /\ Len(loc[t].queue) = 1

\* what the pricing collaborator answers for region in the currency of the call l: the
\* prices of its catalog ({} when it raises)
LivePrices(l, region) ==
    IF Catalog(region, l.currency).ok
    THEN _fetch_region_prices(Catalog(region, l.currency).prices)
    ELSE EmptyDict

\* the pricing collaborator answers at least one priced SKU for region
LivePriced(l, region) == ValidSkus(LivePrices(l, region)) # {}

\* C15 as stated: whenever discovery succeeds and the pricing collaborator answers at
\* least one priced SKU for a discovered region, the row of that region has a non-null
\* average price, whatever the bulk cache answered.
C15_Original ==
    \A t \in DOMAIN pc :
        Computed(t) =>
            \A r \in Range(loc[t].region_names) :
                LivePriced(loc[t], r) => ~IsNone(RowOf(ret[t].data.rows, r).avg_price)

\* the prices the bulk cache returned for region
CachePrices(l, region) == Get(MergeFlat(EmptyDict, l.db_prices), region, EmptyDict)

\* the regions the hybrid fill re-fetches
Refetched(l) == MissingRegions(l.region_names, l.sample_skus, MergeFlat(EmptyDict, l.db_prices))

\* the entries of the flat map for region
OfRegion(flat, region) == [k \in {x \in DOMAIN flat : x[1] = region} |-> flat[k]]

\* the pricing collaborator raises for region
LiveFails(l, region) == ~Catalog(region, l.currency).ok

\* the outputs of the two fan-outs hold what every fetch that succeeded brought and
\* nothing for a fetch that failed
FanOutIsolated(l) ==
    /\ l.data_source = "live" =>
          \A r \in Range(l.region_names) :
              IF LiveFails(l, r) THEN r \notin DOMAIN l.region_prices
              ELSE r \in DOMAIN l.region_prices /\ l.region_prices[r] = LivePrices(l, r)
    /\ l.data_source = "hybrid" =>
          \A r \in Refetched(l) :
              OfRegion(l.core_prices, r) =
                  IF LiveFails(l, r) THEN EmptyDict
                  ELSE CoreFetchRegion(r, Catalog(r, l.currency).prices, l.sample_skus)

\* C16 as stated: when the pricing collaborator raises for some regions of a fan-out,
\* the call still returns, the prices of every other region are in the output as
\* fetched, and each failed region contributes no entries: its row has a null average
\* price and availability 0.
C16_Original ==
    \A t \in DOMAIN pc :
        Computed(t) =>
            /\ FanOutIsolated(loc[t])
            /\ \A r \in Range(loc[t].region_names) :
                  (/\ LiveFails(loc[t], r)
                   /\ \/ loc[t].data_source = "live"
                      \/ loc[t].data_source = "hybrid" /\ r \in Refetched(loc[t])) =>
                      /\ IsNone(RowOf(ret[t].data.rows, r).avg_price)
                      /\ RowOf(ret[t].data.rows, r).availability_pct = <<0, 1>>

\* C16 amended: each failed region contributes no entries to the output of the fan-out
\* and the prices of every other region are there as fetched; on a live outcome the
\* row of a failed region has a null average price and availability 0, on a hybrid
\* outcome its row is built from the prices the bulk cache returned for it alone (from
\* the sample catalog, when it is the sample region and the cache returned none).
C16_FailureIsolated ==
    \A t \in DOMAIN pc :
        Computed(t) =>
            /\ FanOutIsolated(loc[t])
            /\ \A r \in Range(loc[t].region_names) :
                  LET row == RowOf(ret[t].data.rows, r)
                      kept == IF r \in RegionsOf(loc[t].db_prices) THEN CachePrices(loc[t], r)
                              ELSE IF r = loc[t].region_names[1] THEN loc[t].sample_prices
                              ELSE EmptyDict
                  IN  /\ (LiveFails(loc[t], r) /\ loc[t].data_source = "live") =>
                            /\ IsNone(row.avg_price)
                            /\ row.availability_pct = <<0, 1>>
                            /\ row.sku_count = 0
                      /\ (LiveFails(loc[t], r) /\ loc[t].data_source = "hybrid"
                              /\ r \in Refetched(loc[t])) =>
                            row = BuildRow(r, Put(EmptyDict, r, kept), loc[t].timestamp)

\* a hybrid result: the re-fetch of one region failed, its row still shows the price
\* the cache had for it, and another region was priced by its re-fetch
C16_Witness ==
    \E t \in DOMAIN pc :
        /\ Computed(t)
        /\ ret[t].data.data_source = "hybrid"
        /\ \E r \in Refetched(loc[t]) :
              /\ LiveFails(loc[t], r)
              /\ ~IsNone(RowOf(ret[t].data.rows, r).avg_price)
        /\ \E r \in Refetched(loc[t]) :
              /\ ~LiveFails(loc[t], r)
              /\ OfRegion(loc[t].core_prices, r) # EmptyDict

\* the map _collect_all_skus returns when the fetches complete one after the other
SequentialLive(l) ==
    [r \in {x \in Range(l.region_names) : ~LiveFails(l, x)} |-> LivePrices(l, r)]

\* the map CoreApiPricingProvider.get_prices_bulk returns for regions when the
\* fetches complete one after the other
SequentialCore(l, regions) ==
    LET part(r) == IF LiveFails(l, r) THEN EmptyDict
                   ELSE CoreFetchRegion(r, Catalog(r, l.currency).prices, l.sample_skus)
    IN  [k \in UNION {DOMAIN part(r) : r \in regions} |-> part(k[1])[k]]

\* the summary of a call in which every fetch completes before the next one starts
SequentialSummary(region_names, currency, timestamp, available) ==
    LET l0 == [NoLocals EXCEPT !.region_names = region_names,
                               !.currency = currency,
                               !.timestamp = timestamp]
        sample_prices == IF region_names # <<>> THEN LivePrices(l0, region_names[1])
                         ELSE EmptyDict
        l1 == [l0 EXCEPT !.sample_prices = sample_prices, !.sample_skus = DOMAIN sample_prices]
        live == [l1 EXCEPT !.data_source = "live", !.region_prices = SequentialLive(l1)]
        sel == SelectOnDb(l1, DbParse(DbAnswer(l1).rows))
        filled == HybridJoin([sel EXCEPT !.core_prices = SequentialCore(sel, sel.futures)])
    IN  IF l1.sample_skus = {} \/ ~available THEN ResultOf(live)
        ELSE IF sel.data_source = "live" THEN ResultOf(live)
        ELSE IF sel.data_source = "db" THEN ResultOf(PostSelect(sel))
        ELSE ResultOf(PostSelect(filled))

\* where region stands in the discovered list
PlaceOf(region_names, region) == CHOOSE i \in 1..Len(region_names) : region_names[i] = region

\* C18: for fixed answers of the collaborators the summary (row order, row values, data
\* source, coverage) is the same for every completion order of the concurrent fetches,
\* namely the one of a sequential run; rows of equal average price stand in discovery
\* order.
C18_OrderIndependent ==
    \A t \in DOMAIN pc :
        Computed(t) =>
            /\ ret[t].data = SequentialSummary(loc[t].region_names, loc[t].currency,
                                               loc[t].timestamp, log[t].status_kind = "available")
            /\ \A i, j \in 1..Len(ret[t].data.rows) :
                  (i < j /\ ret[t].data.rows[i].avg_price = ret[t].data.rows[j].avg_price) =>
                      PlaceOf(loc[t].region_names, ret[t].data.rows[i].region_id)
                          < PlaceOf(loc[t].region_names, ret[t].data.rows[j].region_id)

\* a live result over four regions, fetched concurrently, in which two regions have
\* the same average price and one has none
C18_Witness ==
    \E t \in DOMAIN pc :
        /\ Computed(t)
        /\ ret[t].data.data_source = "live"
        /\ Len(ret[t].data.rows) = 4
        /\ loc[t].region_names[1] = "r4"
        /\ ret[t].data.rows[1].region_id = "r4"
        /\ ret[t].data.rows[1].avg_price = ret[t].data.rows[2].avg_price
        /\ IsNone(ret[t].data.rows[4].avg_price)

\* the cache result lacks a sample SKU for region
CacheLacks(l, region) == \E s \in l.sample_skus : <<region, s>> \notin DOMAIN l.db_prices

\* how often the call fetched region through the live adapter, the fetch of the
\* sample catalog left aside
LiveFetches(l, lg, region) ==
    Get(lg.pricing, region, 0) - (IF region = l.region_names[1] THEN 1 ELSE 0)

\* C19: in a hybrid outcome the regions fetched through the live adapter are exactly
\* the discovered regions for which the cache result lacks a sample SKU; no live fetch
\* is made for any other region, and its prices in the final map are the cache values.
C19_RefetchExactlyMissing ==
    \A t \in DOMAIN pc :
        (Computed(t) /\ ret[t].data.data_source = "hybrid") =>
            /\ DOMAIN log[t].pricing \subseteq Range(loc[t].region_names)
            /\ \A r \in Range(loc[t].region_names) :
                  IF CacheLacks(loc[t], r)
                  THEN LiveFetches(loc[t], log[t], r) = 1
                  ELSE /\ LiveFetches(loc[t], log[t], r) = 0
                       /\ loc[t].region_prices[r] =
                              [s \in SkusOf(loc[t].db_prices, r) |-> Some(loc[t].db_prices[<<r, s>>])]

\* a hybrid result over two regions: one in the cache in full and not fetched again,
\* one in the cache in part and fetched again
C19_Witness ==
    \E t \in DOMAIN pc :
        /\ Computed(t)
        /\ ret[t].data.data_source = "hybrid"
        /\ \E r \in Range(loc[t].region_names) :
              /\ ~CacheLacks(loc[t], r)
              /\ LiveFetches(loc[t], log[t], r) = 0
        /\ \E r \in Range(loc[t].region_names) :
              /\ CacheLacks(loc[t], r)
              /\ r \in RegionsOf(loc[t].db_prices)
              /\ LiveFetches(loc[t], log[t], r) = 1

\* C20 as stated: in the hybrid merge a pair the cache result priced keeps its cache
\* price in the merged map; live prices are written only for pairs absent from the
\* cache result.
C20_Original ==
    \A t \in DOMAIN pc :
        (Computed(t) /\ ret[t].data.data_source = "hybrid") =>
            \A k \in DOMAIN loc[t].db_prices :
                loc[t].region_prices[k[1]][k[2]] = Some(loc[t].db_prices[k])

\* C14 as stated: every value of the map either adapter returns is a positive price.
C14_Original ==
    \A t \in Callers :
        /\ \A k \in DOMAIN loc[t].db_prices : loc[t].db_prices[k] > 0
        /\ \A k \in DOMAIN loc[t].core_prices : loc[t].core_prices[k] > 0

\* C14: every value of the map either adapter returns is the non-null price upstream
\* holds for that pair (a row of the bulk cache with region and SKU, an entry of the
\* region's catalog): a pair whose upstream price is null or missing is absent.
C14_UpstreamPrices ==
    \A t \in Callers :
        LET l == loc[t]
        IN  /\ \A k \in DOMAIN l.db_prices :
                  /\ k[1] # "" /\ k[2] # ""
                  /\ DbRow(k[1], k[2], Some(l.db_prices[k])) \in DbTable(l.currency)
            /\ \A k \in DOMAIN l.core_prices :
                  /\ k[1] \in WorldRegions
                  /\ CatalogOf[<<k[1], l.currency>>].ok
                  /\ k[2] \in DOMAIN CatalogOf[<<k[1], l.currency>>].prices
                  /\ CatalogOf[<<k[1], l.currency>>].prices[k[2]].paygo = Some(l.core_prices[k])

\* both adapters have answered a caller: the bulk cache held a row without price for a
\* requested pair, and a region fetched from the catalog had an entry without price
C14_Witness ==
    \E t \in Callers :
        LET l == loc[t]
        IN  /\ l.db_prices # EmptyDict
            /\ l.core_prices # EmptyDict
            /\ \E row \in DbAnswer(l).rows :
                  /\ IsNone(row.price_hourly)
                  /\ <<row.region, row.sku>> \notin DOMAIN l.db_prices
            /\ \E k \in DOMAIN l.core_prices :
                  \E n \in DOMAIN CatalogOf[<<k[1], l.currency>>].prices :
                      /\ IsNone(CatalogOf[<<k[1], l.currency>>].prices[n].paygo)
                      /\ <<k[1], n>> \notin DOMAIN l.core_prices

\* how often the call of caller t has invoked the pricing collaborator for region
Invocations(t, region) == Get(log[t].pricing, region, 0)

\* C21 as stated: within one summary computation the pricing collaborator is invoked at
\* most once for the first discovered region, whichever outcome is selected.
C21_Original ==
    \A t \in Callers :
        loc[t].region_names # <<>> => Invocations(t, loc[t].region_names[1]) <= 1

\* C21: the sample catalog is reused where the selector skips the first region: a
\* computation invokes the collaborator for the first region once on the db outcome and
\* on a hybrid outcome whose cache answer has every sample SKU for it, and twice (the
\* sample fetch and one fan-out fetch) on the live outcome and on a hybrid outcome whose
\* cache answer lacks a sample SKU for it.
C21_SampleReuse ==
    \A t \in Callers :
        (Computed(t) /\ loc[t].region_names # <<>>) =>
            LET l == loc[t]
                first == l.region_names[1]
                refetched == \/ l.data_source = "live"
                             \/ l.data_source = "hybrid" /\ CacheLacks(l, first)
            IN  Invocations(t, first) = IF refetched THEN 2 ELSE 1

\* a hybrid outcome over two regions: the cache answered every sample SKU of the first
\* region, which was fetched once (the sample), and the second region was re-fetched
C21_Witness ==
    \E t \in Callers :
        /\ Computed(t)
        /\ Len(loc[t].region_names) = 2
        /\ loc[t].data_source \in {"db", "hybrid"}
        /\ ~CacheLacks(loc[t], loc[t].region_names[1])
        /\ loc[t].sample_prices # EmptyDict
        /\ Invocations(t, loc[t].region_names[1]) = 1
        /\ Invocations(t, loc[t].region_names[2]) = 1

\* the call of caller t found an entry for its key that was at least 600 seconds old
FoundStale(t) ==
    /\ loc[t].cache_key \in DOMAIN _result_cache
    /\ loc[t].now - _result_cache[loc[t].cache_key].ts >= 600

\* C22: a summary call that finds no entry for its key, or one whose age is at least
\* 600 seconds, returns nothing from the cache and starts at discovery; when discovery
\* succeeds the call ends by replacing the key's entry with the result it returns and
\* the time read at the store, not earlier than the call's start; whatever the call
\* returns, it is not the stale result.
C22_RecomputeOnExpiry ==
    [][\A t \in DOMAIN pc :
          /\ CallStep(t) =>
                LET k == loc'[t].cache_key
                IN  (k \notin DOMAIN _result_cache \/ clock - _result_cache[k].ts >= 600) =>
                        /\ pc'[t] = "discover"
                        /\ ret'[t].kind = "none"
                        /\ log'[t] = NoLog
                        /\ _result_cache' = _result_cache
          /\ StoreStep(t) =>
                LET k == loc[t].cache_key
                IN  /\ log[t].discovery = 1
                    /\ ret'[t].kind = "computed"
                    /\ k \in DOMAIN _result_cache'
                    /\ _result_cache'[k] = [ts |-> clock, data |-> ret'[t].data]
                    /\ _result_cache'[k].ts >= loc[t].now
                    /\ FoundStale(t) => ret'[t].data # _result_cache[k].data
          /\ DiscoveryFailedStep(t) =>
                /\ ret'[t].kind = "empty"
                /\ FoundStale(t) => ret'[t].data # _result_cache[loc[t].cache_key].data
      ]_vars

\* a call that found an entry exactly 600 seconds old has run discovery and the live
\* fetch and is about to store its own result
C22_Witness ==
    \E t \in DOMAIN pc :
        /\ pc[t] = "finish"
        /\ loc[t].cache_key \in DOMAIN _result_cache
        /\ loc[t].now - _result_cache[loc[t].cache_key].ts = 600
        /\ log[t].discovery = 1
        /\ ResultOf(loc[t]) # _result_cache[loc[t].cache_key].data

\* C23 as stated: the coverage percentage of every summary result lies between 0 and
\* 100 (0 and 1000 tenths), in every outcome.
C23_Original ==
    \A t \in Callers :
        Returned(t) => ret[t].data.coverage_pct \in 0..1000

\* the call of caller t is past the sample fetch
PastSample(t) == pc[t] \in {"db_status", "db_query", "core_fetch", "live_fetch", "finish"} \/ Computed(t)

\* C24: a computation whose sample fetch brought no SKU name (it raised, the catalog was
\* empty, or there was no region to sample) never calls the bulk cache, neither its
\* status nor its query endpoint, whatever they would answer, and its outcome is live.
C24_NoSampleNoCache ==
    \A t \in Callers :
        (PastSample(t) /\ loc[t].sample_skus = {}) =>
            /\ pc[t] \notin {"db_status", "db_query", "core_fetch"}
            /\ log[t].status = 0
            /\ log[t].query = 0
            /\ loc[t].data_source = "live"
            /\ Computed(t) => ret[t].data.data_source = "live"

\* the sample fetch of the first of two regions brought nothing, and the live fan-out
\* then priced a region
C24_Witness ==
    \E t \in Callers :
        /\ Computed(t)
        /\ Len(loc[t].region_names) = 2
        /\ loc[t].sample_skus = {}
        /\ Invocations(t, loc[t].region_names[1]) = 2
        /\ log[t].status = 0
        /\ ret[t].data.data_source = "live"
        /\ \E i \in 1..Len(ret[t].data.rows) : ~IsNone(ret[t].data.rows[i].avg_price)

\* the calls of callers t and u were given the same tenant and currency
SameKeyInputs(lt, lu) == lt.tenant_id = lu.tenant_id /\ lt.currency = lu.currency

Own(t) == <<pc[t], loc[t], log[t], ret[t]>>

\* the result holds one row for every discovered region
Complete(data, region_names) ==
    /\ Len(data.rows) = Len(region_names)
    /\ \A i \in 1..Len(region_names) : OnceIn(data.rows, region_names[i])

====
